---- MODULE Spec2Model ----
(***************************************************************************)
(* A model of zign's token lifecycle (src/zign/api.py): the token cache    *)
(* file, the validity check, the token service client, the service token   *)
(* provider and the two entry points get_token and get_named_token.        *)
(*                                                                         *)
(* Python values: a dict is a function from field names to values, the     *)
(* value None of a string-valued expression is the string None, the value  *)
(* None of a dict-valued expression is NoToken.  Time is in seconds.       *)
(***************************************************************************)
EXTENDS Integers, Sequences, FiniteSets, TLC

VARIABLES now,          \* time.time(), in seconds
          tokensFile,   \* the file at TOKENS_FILE_PATH
          keyringStore, \* the keyring: user -> password
          configFile,   \* the stups_cli configuration 'zign'
          call,         \* the running (or last finished) call and its locals
          events        \* what the running call has done so far, in order

vars == <<now, tokensFile, keyringStore, configFile, call, events>>

----------------------------------------------------------------------------
(* Bounds of the model *)

MaxTicks == 1            \* the clock stops after MaxTicks ticks
MaxAuthFailures == 1     \* HTTP 401 answers within one call
MaxProbeFailures == 1    \* failed URL probes within one call
MaxLen == 3              \* longest scope list of the scope-filter check
MaxSkew == 1             \* seconds around each validity boundary that are checked

TickSeconds == 4 * 100   \* one tick of the clock

----------------------------------------------------------------------------
(* Python values *)

None == "None"
NoToken == [absent |-> TRUE]
EmptyDict == [k \in {} |-> None]

\* truth value of a string-valued expression (None and '' are false)
Truthy(s) == s \notin {None, ""}

\* truth value of a dict-valued expression (None and {} are false)
TruthyDict(d) == d # NoToken /\ DOMAIN d # {}

\* a or b
Or(a, b) == IF Truthy(a) THEN a ELSE b

\* d.get(k, dflt)
Get(d, k, dflt) == IF k \in DOMAIN d THEN d[k] ELSE dflt

\* d[k] = v
Put(d, k, v) == (k :> v) @@ d

----------------------------------------------------------------------------
(* Program constants *)

TOKEN_MINIMUM_VALIDITY_SECONDS == 60 * 5

Names == {"n1", "n2"}
NameOrder == <<"n1", "n2">>       \* the order in which yaml.safe_dump writes the keys
UserScopes == {"uid", "cn"}
ScopeNames == {"uid", "cn", "openid"}

----------------------------------------------------------------------------
(* ValidityChecker *)

\* a variant: the comparison lets the boundary through
is_valid_inclusive(token, t) ==
    /\ TruthyDict(token)
    /\ t <= Get(token, "creation_time", 0) + Get(token, "expires_in", 0)
              - TOKEN_MINIMUM_VALIDITY_SECONDS

\* is_valid(token), evaluated when time.time() = t
is_valid(token, t) ==
    /\ TruthyDict(token)
    /\ t < Get(token, "creation_time", 0) + Get(token, "expires_in", 0)
             - TOKEN_MINIMUM_VALIDITY_SECONDS

----------------------------------------------------------------------------
(* TokenStore: the cache file holds a YAML document *)

FileMissing == [kind |-> "missing"]
FileUnparseable == [kind |-> "unparseable"]   \* text yaml cannot parse
FileScalar == [kind |-> "scalar"]             \* a YAML document that is no mapping
FileMapping(doc) == [kind |-> "mapping", doc |-> doc]

NotADict == [scalar |-> TRUE]

\* yaml.safe_dump(data): the keys of the mapping in sorted order
SortedKeys(data) == SelectSeq(NameOrder, LAMBDA n : n \in DOMAIN data)

safe_dump(data) ==
    LET keys == SortedKeys(data)
    IN  [i \in 1..Len(keys) |-> <<keys[i], data[keys[i]]>>]

\* yaml.safe_load of a mapping document: a later key overrides an earlier one
RECURSIVE safe_load(_)
safe_load(doc) ==
    IF Len(doc) = 0 THEN EmptyDict
    ELSE LET last == doc[Len(doc)]
         IN  Put(safe_load(SubSeq(doc, 1, Len(doc) - 1)), last[1], last[2])

\* get_tokens(): the cache, {} when the file cannot be opened or parsed
get_tokens(file) ==
    CASE file.kind = "mapping" -> safe_load(file.doc)
      [] file.kind = "scalar"  -> NotADict
      [] OTHER                 -> EmptyDict

\* get_existing_token(name) at time t: the cached token when it is valid, else None
get_existing_token(name, file, t) ==
    LET data == get_tokens(file)
        existing_token == Get(data, name, NoToken)
    IN  IF data = NotADict THEN [exc |-> "AttributeError", token |-> NoToken]
        ELSE IF is_valid(existing_token, t)
             THEN [exc |-> None, token |-> existing_token]
             ELSE [exc |-> None, token |-> NoToken]

\* a variant: an issuer-supplied creation_time is kept
store_token_keeps_issuer_time(name, result, file, t) ==
    LET data == get_tokens(file)
        stamped == IF "creation_time" \in DOMAIN result THEN result
                   ELSE Put(result, "creation_time", t)
    IN  IF data = NotADict
        THEN [exc |-> "TypeError", file |-> file, result |-> result]
        ELSE [exc |-> None,
              file |-> FileMapping(safe_dump(Put(data, name, stamped))),
              result |-> stamped]

\* a variant: every record of the cache gets the new creation_time
store_token_stamps_all(name, result, file, t) ==
    LET data == get_tokens(file)
        stamped == Put(result, "creation_time", t)
        all == Put(data, name, stamped)
    IN  IF data = NotADict
        THEN [exc |-> "TypeError", file |-> file, result |-> result]
        ELSE [exc |-> None,
              file |-> FileMapping(safe_dump(
                          [n \in DOMAIN all |-> Put(all[n], "creation_time", t)])),
              result |-> stamped]

\* store_token(name, result) at time t: the new file, and result as the call leaves it
store_token(name, result, file, t) ==
    LET data == get_tokens(file)
        stamped == Put(result, "creation_time", t)
    IN  IF data = NotADict
        THEN [exc |-> "TypeError", file |-> file, result |-> result]
        ELSE [exc |-> None,
              file |-> FileMapping(safe_dump(Put(data, name, stamped))),
              result |-> stamped]

----------------------------------------------------------------------------
(* TokenServiceClient *)

\* a variant: openid passes as a user scope too
is_user_scope_with_openid(scope) == scope \in UserScopes \cup {"openid"}

\* is_user_scope(scope)
is_user_scope(scope) == scope \in UserScopes

\* filter(is_user_scope, scope)
RECURSIVE filter_user_scopes(_)
filter_user_scopes(scope) ==
    IF Len(scope) = 0 THEN <<>>
    ELSE IF is_user_scope(Head(scope))
         THEN <<Head(scope)>> \o filter_user_scopes(Tail(scope))
         ELSE filter_user_scopes(Tail(scope))

\* ' '.join(words)
RECURSIVE join(_)
join(words) ==
    IF Len(words) = 0 THEN ""
    ELSE IF Len(words) = 1 THEN words[1]
    ELSE words[1] \o " " \o join(Tail(words))

\* the query parameters get_new_token sends
request_params(realm, scope) ==
    LET p1 == [json |-> "true"]
        p2 == IF Truthy(realm) THEN Put(p1, "realm", realm) ELSE p1
    IN  IF Len(scope) # 0 THEN Put(p2, "scope", join(filter_user_scopes(scope))) ELSE p2

\* what the token service may answer
OkBodies == {[access_token |-> "tokA", expires_in |-> 200],
             [access_token |-> "tokA", expires_in |-> 700]}
BadBodies == {[expires_in |-> 700], [access_token |-> "", expires_in |-> 700]}
HttpOutcomes ==
    {[kind |-> "connection_error", status |-> 0, json |-> EmptyDict],
     [kind |-> "response", status |-> 401, json |-> EmptyDict],
     [kind |-> "response", status |-> 500, json |-> EmptyDict],
     [kind |-> "not_json", status |-> 200, json |-> EmptyDict]}
    \cup {[kind |-> "response", status |-> 200, json |-> b] : b \in OkBodies \cup BadBodies}

\* a variant: only the presence of the key is checked
access_token_missing_key_only(json_data) == "access_token" \notin DOMAIN json_data

\* line 69: not json_data.get('access_token')
access_token_missing(json_data) == ~Truthy(Get(json_data, "access_token", None))

\* get_new_token(realm, scope, user, password, url, insecure) when the transport
\* answers with outcome o; cfg is what get_config() returns
get_new_token(realm, scope, user, password, url, cfg, o) ==
    LET u == IF Truthy(url) THEN url ELSE Get(cfg, "url", None)
        req == [url |-> u, params |-> request_params(realm, scope),
                user |-> user, password |-> password]
        raise(e, sent) == [exc |-> e, sent |-> sent, request |-> req,
                           status |-> IF sent THEN o.status ELSE 0, json |-> NoToken]
    IN  IF ~Truthy(u) THEN raise("MissingSchema", FALSE)
        ELSE IF o.kind = "connection_error" THEN raise("ConnectionError", TRUE)
        ELSE IF o.status = 401 THEN raise("AuthenticationFailed", TRUE)
        ELSE IF o.status # 200 THEN raise("ServerError", TRUE)
        ELSE IF o.kind = "not_json" THEN raise("ServerError", TRUE)
        ELSE IF access_token_missing(o.json) THEN raise("ServerError", TRUE)
        ELSE [exc |-> None, sent |-> TRUE, request |-> req, status |-> 200, json |-> o.json]

----------------------------------------------------------------------------
(* ServiceTokenProvider *)

\* what tokens.get(name) may do: return a token, raise one of the two exceptions
\* get_service_token catches, or raise any other exception
ServiceOutcomes == {[exc |-> None, token |-> "svcT"],
                    [exc |-> None, token |-> ""],
                    [exc |-> "tokens.ConfigurationError", token |-> None],
                    [exc |-> "tokens.InvalidCredentialsError", token |-> None],
                    [exc |-> "OtherException", token |-> None]}

\* a variant: only tokens.ConfigurationError is caught
get_service_token_one_except(o) ==
    IF o.exc = None THEN [exc |-> None, access_token |-> o.token]
    ELSE IF o.exc = "tokens.ConfigurationError"
         THEN [exc |-> None, access_token |-> None]
         ELSE [exc |-> o.exc, access_token |-> None]

\* get_service_token(name, scopes) when tokens.get(name) does o
get_service_token(o) ==
    IF o.exc = None THEN [exc |-> None, access_token |-> o.token]
    ELSE IF o.exc \in {"tokens.ConfigurationError", "tokens.InvalidCredentialsError"}
         THEN [exc |-> None, access_token |-> None]
         ELSE [exc |-> o.exc, access_token |-> None]


----------------------------------------------------------------------------
(* The collaborators' state and the inputs of a call *)

Users == {"alice"}
Passwords == {"pw1", "pw2"}
Urls == {"https://ts"}
Realms == {"/services"}

\* what the user may type at the URL prompt
PromptUrls == Urls \cup {"https://typo"}

\* keyring.get_password(KEYRING_KEY, user)
get_password(user) == Get(keyringStore, user, None)

\* get_config(): stups_cli.config.load_config('zign')
get_config == configFile

Configs == {EmptyDict, [user |-> "alice"], [url |-> "https://ts"],
            [user |-> "alice", url |-> "https://ts"]}

\* the environment variables ZIGN_USER, USER and ZIGN_PASSWORD
Environments == {[ZIGN_USER |-> None, USER |-> None, ZIGN_PASSWORD |-> None],
                 [ZIGN_USER |-> None, USER |-> "alice", ZIGN_PASSWORD |-> None],
                 [ZIGN_USER |-> "alice", USER |-> None, ZIGN_PASSWORD |-> "pw2"]}

ScopeLists == {<<>>, <<"uid", "openid", "cn">>}

\* the token names the callers of get_token and get_named_token use
CallNames == {"n1"}

NoEnv == [ZIGN_USER |-> None, USER |-> None, ZIGN_PASSWORD |-> None]

IdleCall == [op |-> "none", pc |-> "idle", name |-> None, scope |-> <<>>, realm |-> None,
             user |-> None, password |-> None, url |-> None, refresh |-> FALSE,
             use_keyring |-> FALSE, prompt |-> FALSE, env |-> NoEnv,
             config |-> EmptyDict, result |-> NoToken, exc |-> None,
             pre |-> [tokens |-> FileMissing, keyring |-> EmptyDict, config |-> EmptyDict]]

Finished == {"returned", "raised"}

Snapshot == [tokens |-> tokensFile, keyring |-> keyringStore, config |-> configFile]

\* c.result is the token record the call returns (get_named_token) or takes the
\* returned access token from (get_token)
Returned(c, result) == [c EXCEPT !.pc = "returned", !.result = result]
Raised(c, exc) == [c EXCEPT !.pc = "raised", !.exc = exc]

Log(es, e) == Append(es, e)

\* the event of a get_new_token call that reached requests.get
RequestEvent(r) == [e |-> "request", url |-> r.request.url, params |-> r.request.params,
                    user |-> r.request.user, password |-> r.request.password,
                    status |-> r.status, exc |-> r.exc]

----------------------------------------------------------------------------
(* get_token(name, scopes) *)

\* a variant: the URL is not checked
configuration_error_user_only(user, config) == ~Truthy(user)

\* lines 209-215: no user, or no URL in the configuration
configuration_error(user, config) ==
    ~Truthy(user) \/ ~Truthy(Get(config, "url", None))

\* lines 196-200: the call and its cache lookup
GetToken(name, scopes, env) ==
    /\ call.pc = "idle"
    /\ LET c == [IdleCall EXCEPT !.op = "get_token", !.name = name, !.scope = scopes,
                                 !.env = env, !.pre = Snapshot]
           ex == get_existing_token(name, tokensFile, now)
       IN  /\ events' = <<[e |-> "cache_lookup", hit |-> TruthyDict(ex.token)]>>
           /\ call' = IF ex.exc # None THEN Raised(c, ex.exc)
                      ELSE IF TruthyDict(ex.token)
                           THEN IF "access_token" \in DOMAIN ex.token
                                THEN Returned(c, ex.token)
                                ELSE Raised(c, "KeyError")
                           ELSE [c EXCEPT !.pc = "gt_service"]
    /\ UNCHANGED <<now, tokensFile, keyringStore, configFile>>

\* a variant: the user and the URL are checked before the service token is asked for
GetTokenService_config_first(o) ==
    /\ call.pc = "gt_service"
    /\ LET r == get_service_token(o)
           config == get_config
           user == Or(Or(Get(config, "user", None), call.env.ZIGN_USER), call.env.USER)
           password == Or(call.env.ZIGN_PASSWORD, get_password(user))
           ev == [e |-> "service", exc |-> o.exc, token |-> r.access_token]
       IN  IF configuration_error(user, config)
           THEN /\ call' = Raised([call EXCEPT !.config = config], "ConfigurationError")
                /\ events' = Log(events, [e |-> "get_config"])
           ELSE IF r.exc # None
           THEN /\ call' = Raised(call, r.exc)
                /\ events' = Log(Log(events, [e |-> "get_config"]), ev)
           ELSE IF Truthy(r.access_token)
           THEN /\ call' = Returned(call, [access_token |-> r.access_token])
                /\ events' = Log(Log(events, [e |-> "get_config"]), ev)
           ELSE /\ events' = Log(Log(events, [e |-> "get_config"]), ev)
                /\ call' = [call EXCEPT !.pc = "gt_request", !.config = config,
                                        !.user = user, !.password = password]
    /\ UNCHANGED <<now, tokensFile, keyringStore, configFile>>

\* lines 202-217: the service token, then the user, the URL and the password
GetTokenService(o) ==
    /\ call.pc = "gt_service"
    /\ LET r == get_service_token(o)
           config == get_config
           user == Or(Or(Get(config, "user", None), call.env.ZIGN_USER), call.env.USER)
           password == Or(call.env.ZIGN_PASSWORD, get_password(user))
           ev == [e |-> "service", exc |-> o.exc, token |-> r.access_token]
       IN  IF r.exc # None
           THEN /\ call' = Raised(call, r.exc)
                /\ events' = Log(events, ev)
           ELSE IF Truthy(r.access_token)
           THEN /\ call' = Returned(call, [access_token |-> r.access_token])
                /\ events' = Log(events, ev)
           ELSE /\ events' = Log(Log(events, ev), [e |-> "get_config"])
                /\ call' = IF configuration_error(user, config)
                           THEN Raised([call EXCEPT !.config = config], "ConfigurationError")
                           ELSE [call EXCEPT !.pc = "gt_request", !.config = config,
                                             !.user = user, !.password = password]
    /\ UNCHANGED <<now, tokensFile, keyringStore, configFile>>

\* lines 218-222: the token request; the new token is stored and returned
GetTokenRequest(o) ==
    /\ call.pc = "gt_request"
    /\ LET r == get_new_token(Get(call.config, "realm", None), call.scope, call.user,
                              call.password, Get(call.config, "url", None), get_config, o)
           st == store_token(call.name, r.json, tokensFile, now)
           evs == IF r.sent THEN Log(events, RequestEvent(r)) ELSE events
       IN  IF r.exc # None
           THEN /\ call' = Raised(call, r.exc)
                /\ events' = evs
                /\ UNCHANGED tokensFile
           ELSE IF st.exc # None
           THEN /\ call' = Raised(call, st.exc)
                /\ events' = evs
                /\ UNCHANGED tokensFile
           ELSE /\ tokensFile' = st.file
                /\ events' = Log(evs, [e |-> "store_token", name |-> call.name,
                                       token |-> st.result])
                /\ call' = Returned(call, st.result)
    /\ UNCHANGED <<now, keyringStore, configFile>>

----------------------------------------------------------------------------
(* get_named_token(scope, realm, name, user, password, url, insecure, refresh,
                   use_keyring, prompt) *)

NamedArgs == [scope : {<<"uid", "openid", "cn">>}, realm : Realms \cup {None},
              name : CallNames \cup {None}, user : Users, password : {None, "pw1"},
              url : Urls \cup {None}, refresh : BOOLEAN, use_keyring : BOOLEAN,
              prompt : BOOLEAN]

\* the HTTP 401 answers and the failed URL probes of the running call
AuthFailures(es) ==
    Cardinality({i \in 1..Len(es) : es[i].e = "request" /\ es[i].status = 401})
ProbeFailures(es) ==
    Cardinality({i \in 1..Len(es) : es[i].e = "prompt_url" /\ ~es[i].reachable})

\* a variant: except ServerError, which catches its subclass too
is_server_error(exc) == exc \in {"AuthenticationFailed", "ServerError"}

\* line 145: except AuthenticationFailed (a subclass of ServerError)
is_authentication_failed(exc) == exc = "AuthenticationFailed"

\* a variant: the loop goes round again whether prompting or not
retry_after_in_any_mode(exc, prompt) == is_authentication_failed(exc)

\* lines 145-151: the loop goes round again after a rejected password, when prompting
retry_after(exc, prompt) == is_authentication_failed(exc) /\ prompt

\* a variant: the rejected password is kept
password_kept(password) == password

\* line 149: the rejected password is forgotten
password_after_rejection(password) == None

\* a variant: the cache is consulted although refresh is set
cache_consulted_despite_refresh(name, refresh) == Truthy(name)

\* line 109: if name and not refresh
cache_consulted(name, refresh) == Truthy(name) /\ ~refresh

\* a variant: the realm is not looked at
provider_consulted_for_any_realm(name, realm) == Truthy(name)

\* line 114: if name and not realm
provider_consulted(name, realm) == Truthy(name) /\ ~Truthy(realm)

\* a variant: the URL is kept although its probe failed
url_kept_after_probe(input, reachable) == input

\* lines 124-130: the URL entered at the prompt, None again when its probe fails
url_after_probe(input, reachable) == IF reachable THEN input ELSE None

\* a variant: the password is saved whether use_keyring is set or not
keyring_always_written(store, user, password, use_keyring) == Put(store, user, password)

\* lines 153-154: keyring.set_password when use_keyring is set
keyring_after_success(store, user, password, use_keyring) ==
    IF use_keyring THEN Put(store, user, password) ELSE store

\* a variant: the password is never asked for
password_prompt_never_due(password, prompt) == FALSE

\* line 139: if not password and prompt
password_prompt_due(password, prompt) == ~Truthy(password) /\ prompt

\* lines 134-136: the configuration is stored, the password resolved
StoreConfigAndPassword(c, evs) ==
    /\ configFile' = c.config
    /\ events' = Log(evs, [e |-> "store_config", config |-> c.config])
    /\ call' = [c EXCEPT !.pc = "nt_loop",
                         !.password = Or(c.password, get_password(c.user))]

\* lines 119-136: the URL from the argument or the configuration
ResolveUrl(c, evs) ==
    LET config == get_config
        url == Or(c.url, Get(config, "url", None))
        c1 == [c EXCEPT !.config = config, !.url = url]
        evs1 == Log(evs, [e |-> "get_config"])
    IN  IF ~Truthy(url) /\ c.prompt
        THEN /\ call' = [c1 EXCEPT !.pc = "nt_url_prompt"]
             /\ events' = evs1
             /\ UNCHANGED configFile
        ELSE StoreConfigAndPassword(c1, evs1)

\* lines 109-117: the call, its cache lookup and what follows a miss
GetNamedToken(a) ==
    /\ call.pc = "idle"
    /\ LET c == [IdleCall EXCEPT !.op = "get_named_token", !.name = a.name,
                                 !.scope = a.scope, !.realm = a.realm, !.user = a.user,
                                 !.password = a.password, !.url = a.url,
                                 !.refresh = a.refresh, !.use_keyring = a.use_keyring,
                                 !.prompt = a.prompt, !.pre = Snapshot]
           lookup == cache_consulted(a.name, a.refresh)
           ex == get_existing_token(a.name, tokensFile, now)
           evs == IF lookup THEN <<[e |-> "cache_lookup", hit |-> TruthyDict(ex.token)]>>
                  ELSE <<>>
       IN  IF lookup /\ ex.exc # None
           THEN /\ call' = Raised(c, ex.exc)
                /\ events' = evs
                /\ UNCHANGED configFile
           ELSE IF lookup /\ TruthyDict(ex.token)
           THEN /\ call' = Returned(c, ex.token)
                /\ events' = evs
                /\ UNCHANGED configFile
           ELSE IF provider_consulted(a.name, a.realm)
           THEN /\ call' = [c EXCEPT !.pc = "nt_service"]
                /\ events' = evs
                /\ UNCHANGED configFile
           ELSE ResolveUrl(c, evs)
    /\ UNCHANGED <<now, tokensFile, keyringStore>>

\* a variant: the service token is saved in the token cache like an issued one
GetNamedTokenService_caches(o) ==
    /\ call.pc = "nt_service"
    /\ LET r == get_service_token(o)
           evs == Log(events, [e |-> "service", exc |-> o.exc, token |-> r.access_token])
           st == store_token(call.name, [access_token |-> r.access_token], tokensFile, now)
       IN  IF r.exc # None
           THEN /\ call' = Raised(call, r.exc)
                /\ events' = evs
                /\ UNCHANGED <<configFile, tokensFile>>
           ELSE IF Truthy(r.access_token)
           THEN /\ call' = Returned(call, [access_token |-> r.access_token])
                /\ events' = evs
                /\ tokensFile' = st.file
                /\ UNCHANGED configFile
           ELSE /\ ResolveUrl(call, evs)
                /\ UNCHANGED tokensFile
    /\ UNCHANGED <<now, keyringStore>>

\* lines 114-117: the service token
GetNamedTokenService(o) ==
    /\ call.pc = "nt_service"
    /\ LET r == get_service_token(o)
           evs == Log(events, [e |-> "service", exc |-> o.exc, token |-> r.access_token])
       IN  IF r.exc # None
           THEN /\ call' = Raised(call, r.exc)
                /\ events' = evs
                /\ UNCHANGED configFile
           ELSE IF Truthy(r.access_token)
           THEN /\ call' = Returned(call, [access_token |-> r.access_token])
                /\ events' = evs
                /\ UNCHANGED configFile
           ELSE ResolveUrl(call, evs)
    /\ UNCHANGED <<now, tokensFile, keyringStore>>

\* lines 123-132: one round of the URL prompt; reachable is whether the probe succeeds
UrlPrompt(input, reachable) ==
    /\ call.pc = "nt_url_prompt"
    /\ reachable \/ ProbeFailures(events) < MaxProbeFailures
    /\ LET url == url_after_probe(input, reachable)
           c == [call EXCEPT !.url = url, !.config = Put(call.config, "url", url)]
           evs == Log(events, [e |-> "prompt_url", input |-> input,
                               reachable |-> reachable])
       IN  IF Truthy(url)
           THEN StoreConfigAndPassword(c, evs)
           ELSE /\ call' = c
                /\ events' = evs
                /\ UNCHANGED configFile
    /\ UNCHANGED <<now, tokensFile, keyringStore>>

\* lines 139-140: the password prompt
PasswordPrompt(input) ==
    /\ call.pc = "nt_loop"
    /\ password_prompt_due(call.password, call.prompt)
    /\ call' = [call EXCEPT !.password = input]
    /\ events' = Log(events, [e |-> "prompt_password", input |-> input])
    /\ UNCHANGED <<now, tokensFile, keyringStore, configFile>>

\* lines 142-159: one token request and what follows it
NamedTokenRequest(o) ==
    /\ call.pc = "nt_loop"
    /\ ~password_prompt_due(call.password, call.prompt)
    /\ (call.prompt /\ o.status = 401) => AuthFailures(events) < MaxAuthFailures
    /\ LET r == get_new_token(call.realm, call.scope, call.user, call.password,
                              call.url, get_config, o)
           evs == IF r.sent THEN Log(events, RequestEvent(r)) ELSE events
           st == store_token(call.name, r.json, tokensFile, now)
           kr == keyring_after_success(keyringStore, call.user, call.password,
                                       call.use_keyring)
           evs1 == IF call.use_keyring
                   THEN Log(evs, [e |-> "set_password", user |-> call.user,
                                  password |-> call.password])
                   ELSE evs
       IN  IF retry_after(r.exc, call.prompt)
           THEN /\ call' = [call EXCEPT !.password = password_after_rejection(call.password)]
                /\ events' = evs
                /\ UNCHANGED <<tokensFile, keyringStore>>
           ELSE IF r.exc # None
           THEN /\ call' = Raised(call, r.exc)
                /\ events' = evs
                /\ UNCHANGED <<tokensFile, keyringStore>>
           ELSE /\ keyringStore' = kr
                /\ IF ~Truthy(call.name)
                   THEN /\ call' = Returned(call, r.json)
                        /\ events' = evs1
                        /\ UNCHANGED tokensFile
                   ELSE IF st.exc # None
                   THEN /\ call' = Raised(call, st.exc)
                        /\ events' = evs1
                        /\ UNCHANGED tokensFile
                   ELSE /\ call' = Returned(call, st.result)
                        /\ events' = Log(evs1, [e |-> "store_token", name |-> call.name,
                                                token |-> st.result])
                        /\ tokensFile' = st.file
    /\ UNCHANGED <<now, configFile>>

----------------------------------------------------------------------------
(* The caller and the clock *)

\* the call has returned or raised: the caller takes the outcome, and the next call
\* starts with fresh locals
Done ==
    /\ call.pc \in Finished
    /\ call' = IdleCall
    /\ events' = <<>>
    /\ UNCHANGED <<now, tokensFile, keyringStore, configFile>>

\* time passes, between calls and between the steps of a call
Tick ==
    /\ call.pc \notin Finished
    /\ now < MaxTicks * TickSeconds
    /\ now' = now + TickSeconds
    /\ UNCHANGED <<tokensFile, keyringStore, configFile, call, events>>

----------------------------------------------------------------------------

Init ==
    /\ now = 0
    /\ tokensFile = FileMissing
    /\ keyringStore \in {EmptyDict, [alice |-> "pw1"]}
    /\ configFile \in Configs
    /\ call = IdleCall
    /\ events = <<>>

Next ==
    \/ \E name \in CallNames, scopes \in ScopeLists, env \in Environments :
          GetToken(name, scopes, env)
    \/ \E o \in ServiceOutcomes : GetTokenService(o)
    \/ \E o \in HttpOutcomes : GetTokenRequest(o)
    \/ \E a \in NamedArgs : GetNamedToken(a)
    \/ \E o \in ServiceOutcomes : GetNamedTokenService(o)
    \/ \E input \in Urls, reachable \in BOOLEAN : UrlPrompt(input, reachable)
    \/ \E input \in Passwords : PasswordPrompt(input)
    \/ \E o \in HttpOutcomes : NamedTokenRequest(o)
    \/ Done
    \/ Tick

Spec == Init /\ [][Next]_vars

----------------------------------------------------------------------------
(* is_valid on its own: the inputs are drawn by the initial state *)

\* the records is_valid is applied to
ValidityRecords ==
    [creation_time : {0, 1000}, expires_in : {0, 300, 3600}]
    \cup [expires_in : {300, 3600}] \cup [creation_time : {1000}]
    \cup {NoToken, EmptyDict}

\* the times of the check: around each point where some record's validity changes
ValidityTimes ==
    {t \in {p + d : p \in {0, 600, 700, 3300, 3480, 4300}, d \in (0 - MaxSkew)..MaxSkew} :
        t >= 0}

ValidCall(token) == [IdleCall EXCEPT !.op = "is_valid", !.result = token]

InitValid ==
    /\ now \in ValidityTimes
    /\ tokensFile = FileMissing
    /\ keyringStore = EmptyDict
    /\ configFile = EmptyDict
    /\ call \in {ValidCall(token) : token \in ValidityRecords}
    /\ events = <<>>

\* is_valid(token) is called; events holds what it returns
IsValid ==
    /\ call.op = "is_valid" /\ call.pc = "idle"
    /\ call' = [call EXCEPT !.pc = "returned"]
    /\ events' = <<[e |-> "is_valid", value |-> is_valid(call.result, now)]>>
    /\ UNCHANGED <<now, tokensFile, keyringStore, configFile>>

NextValid == IsValid

SpecValid == InitValid /\ [][NextValid]_vars

----------------------------------------------------------------------------
(* The request get_new_token sends: the inputs are drawn by the initial state *)

RECURSIVE SeqsUpTo(_, _)
SeqsUpTo(S, n) ==
    IF n = 0 THEN {<<>>}
    ELSE LET shorter == SeqsUpTo(S, n - 1)
         IN  shorter \cup {Append(q, x) : q \in shorter, x \in S}

InitScope ==
    /\ now = 0
    /\ tokensFile = FileMissing
    /\ keyringStore = EmptyDict
    /\ configFile = [url |-> "https://ts"]
    /\ call \in {[IdleCall EXCEPT !.op = "get_new_token", !.scope = scope,
                                  !.realm = realm, !.user = "alice", !.password = "pw1"] :
                    scope \in SeqsUpTo(ScopeNames, MaxLen), realm \in Realms \cup {None}}
    /\ events = <<>>

\* get_new_token(realm, scope, user, password) is called and the transport answers
GetNewToken(o) ==
    /\ call.op = "get_new_token" /\ call.pc = "idle"
    /\ LET r == get_new_token(call.realm, call.scope, call.user, call.password,
                              call.url, get_config, o)
       IN  /\ call' = IF r.exc # None THEN Raised(call, r.exc) ELSE Returned(call, r.json)
           /\ events' = IF r.sent THEN <<RequestEvent(r)>> ELSE <<>>
    /\ UNCHANGED <<now, tokensFile, keyringStore, configFile>>

NextScope == \E o \in HttpOutcomes : GetNewToken(o)

SpecScope == InitScope /\ [][NextScope]_vars

----------------------------------------------------------------------------
(* The token store on its own: store_token and lookups in a freshly loaded cache *)

\* the records store_token is given
StoreRecords == {[access_token |-> "tokA", expires_in |-> 700],
                 [access_token |-> "tokB", expires_in |-> 200, token_type |-> "Bearer"],
                 [access_token |-> "tokA", expires_in |-> 700, creation_time |-> 12345]}

InitStore ==
    /\ now = 0
    /\ tokensFile = FileMissing
    /\ keyringStore = EmptyDict
    /\ configFile = EmptyDict
    /\ call = IdleCall
    /\ events = EmptyDict

\* store_token(name, result) is called; events[name] keeps what was given, and when
StoreToken(name, result) ==
    /\ LET st == store_token(name, result, tokensFile, now)
       IN  /\ tokensFile' = st.file
           /\ call' = IF st.exc # None
                      THEN Raised([IdleCall EXCEPT !.op = "store_token", !.name = name],
                                  st.exc)
                      ELSE Returned([IdleCall EXCEPT !.op = "store_token", !.name = name],
                                    st.result)
           /\ events' = IF st.exc # None THEN events
                        ELSE Put(events, name, [given |-> result, time |-> now])
    /\ UNCHANGED <<now, keyringStore, configFile>>

\* get_tokens().get(name): the lookup of name in a freshly loaded cache
LookupToken(name) ==
    /\ get_tokens(tokensFile) # NotADict
    /\ call' = Returned([IdleCall EXCEPT !.op = "lookup", !.name = name],
                        Get(get_tokens(tokensFile), name, NoToken))
    /\ UNCHANGED <<now, tokensFile, keyringStore, configFile, events>>

StoreTick ==
    /\ now < MaxTicks * TickSeconds
    /\ now' = now + TickSeconds
    /\ UNCHANGED <<tokensFile, keyringStore, configFile, call, events>>

NextStore ==
    \/ \E name \in Names, result \in StoreRecords : StoreToken(name, result)
    \/ \E name \in Names : LookupToken(name)
    \/ StoreTick

SpecStore == InitStore /\ [][NextStore]_vars

----------------------------------------------------------------------------
(* Properties of is_valid, checked under SpecValid *)

\* what is_valid returned
ValidityResult == events[1].value

\* the seconds the record has left at the time of the check
Remaining(token) ==
    Get(token, "creation_time", 0) + Get(token, "expires_in", 0) - now

HasLifetime(token) == {"creation_time", "expires_in"} \subseteq DOMAIN token

ValidityChecked == call.op = "is_valid" /\ call.pc = "returned"

\* C1 as claimed: is_valid is true for every record with
\* creation_time + expires_in - now >= 300, the boundary of exactly 300 included,
\* false below 300, and false for an absent record.
C1_ValidFrom300 ==
    ValidityChecked =>
        /\ (HasLifetime(call.result) /\ Remaining(call.result) >= 300) => ValidityResult
        /\ (HasLifetime(call.result) /\ Remaining(call.result) < 300) => ~ValidityResult
        /\ call.result = NoToken => ~ValidityResult

\* C1 amended: is_valid is true exactly for the records with more than 300 seconds
\* left (creation_time + expires_in - now > 300, a missing field counting as 0); with
\* exactly 300 seconds left, with less, and for an absent or empty record it is false.
C1_ValidAbove300 ==
    ValidityChecked =>
        (ValidityResult <=>
            /\ call.result # NoToken
            /\ DOMAIN call.result # {}
            /\ Remaining(call.result) > 300)

\* a record with exactly 300 seconds left was checked and found not valid
C1_WitnessBoundary ==
    /\ ValidityChecked
    /\ HasLifetime(call.result)
    /\ Remaining(call.result) = 300
    /\ ~ValidityResult

----------------------------------------------------------------------------
(* Properties of the token store, checked under SpecStore *)

\* C2: a lookup of name in a freshly loaded cache, after store_token(name, record),
\* yields the record with every field but creation_time as given, and with
\* creation_time the clock value at the moment of the save.
C2_RoundTrip ==
    (call.op = "lookup" /\ call.name \in DOMAIN events) =>
        LET given == events[call.name].given
            got == call.result
        IN  /\ got # NoToken
            /\ DOMAIN got = DOMAIN given \cup {"creation_time"}
            /\ \A f \in DOMAIN given \ {"creation_time"} : got[f] = given[f]
            /\ got["creation_time"] = events[call.name].time

\* a record that came with its own creation_time was saved, time passed, and the
\* lookup shows the time of the save
C2_WitnessRoundTrip ==
    /\ call.op = "lookup" /\ call.name \in DOMAIN events
    /\ "creation_time" \in DOMAIN events[call.name].given
    /\ now > events[call.name].time
    /\ call.result["creation_time"] = events[call.name].time
    /\ call.result["creation_time"] # events[call.name].given["creation_time"]
    /\ Cardinality(DOMAIN get_tokens(tokensFile)) = 2

----------------------------------------------------------------------------
(* Properties of the request parameters, checked under SpecScope *)

\* the words joined by single spaces, built from the right
RECURSIVE SpaceJoined(_)
SpaceJoined(words) ==
    IF Len(words) = 0 THEN ""
    ELSE IF Len(words) = 1 THEN words[1]
    ELSE SpaceJoined(SubSeq(words, 1, Len(words) - 1)) \o " " \o words[Len(words)]

RequestSent == call.op = "get_new_token" /\ call.pc \in Finished /\ Len(events) = 1

\* C3: the scope parameter get_new_token sends is the space-joined sub-sequence of the
\* requested scopes that are in {uid, cn}, in the requested order; the parameter is
\* sent exactly when the list of requested scopes is not empty.
C3_ScopeFilter ==
    RequestSent =>
        LET params == events[1].params
        IN  /\ "scope" \in DOMAIN params <=> Len(call.scope) > 0
            /\ "scope" \in DOMAIN params =>
                  params["scope"] =
                      SpaceJoined(SelectSeq(call.scope, LAMBDA x : x \in {"uid", "cn"}))

\* [uid, openid, cn] was requested and 'uid cn' was sent
C3_WitnessUidCn ==
    /\ RequestSent
    /\ call.scope = <<"uid", "openid", "cn">>
    /\ "scope" \in DOMAIN events[1].params
    /\ events[1].params["scope"] = "uid cn"

----------------------------------------------------------------------------
(* Properties of get_token and get_named_token, checked under Spec *)

EventsWhere(P(_)) == {i \in 1..Len(events) : P(events[i])}
Requests == EventsWhere(LAMBDA ev : ev.e = "request")
Prompts == EventsWhere(LAMBDA ev : ev.e \in {"prompt_password", "prompt_url"})
Rejections == EventsWhere(LAMBDA ev : ev.e = "request" /\ ev.status = 401)
ServerErrors == EventsWhere(LAMBDA ev : ev.e = "request" /\ ev.exc = "ServerError")

SwallowedSignals == {"tokens.ConfigurationError", "tokens.InvalidCredentialsError"}

CacheMissed == Len(events) >= 1 /\ events[1].e = "cache_lookup" /\ ~events[1].hit
CacheHit == Len(events) >= 1 /\ events[1].e = "cache_lookup" /\ events[1].hit

\* get_service_token was called and returned no token
ProviderGaveNothing ==
    EventsWhere(LAMBDA ev : ev.e = "service" /\ ev.exc # "OtherException"
                            /\ ~Truthy(ev.token)) # {}

CacheUnchanged == tokensFile = call.pre.tokens
KeyringUnchanged == keyringStore = call.pre.keyring

\* C4: get_token with no valid cached token, no token from the service-credential
\* provider and no URL in the configuration raises ConfigurationError, without a
\* prompt, without a token request, and with the token cache as it was.
C4_NoUrlRaisesConfigurationError ==
    (/\ call.op = "get_token"
     /\ CacheMissed
     /\ ProviderGaveNothing
     /\ ~Truthy(Get(call.pre.config, "url", None))) =>
        /\ call.pc = "raised" /\ call.exc = "ConfigurationError"
        /\ Prompts = {}
        /\ Requests = {}
        /\ CacheUnchanged

\* get_token found a user but no URL, and raised ConfigurationError
C4_WitnessNoUrl ==
    /\ call.op = "get_token"
    /\ CacheMissed
    /\ ProviderGaveNothing
    /\ Truthy(Get(call.pre.config, "user", None))
    /\ ~Truthy(Get(call.pre.config, "url", None))
    /\ call.pc = "raised" /\ call.exc = "ConfigurationError"

NonInteractive ==
    \/ call.op = "get_token"
    \/ call.op = "get_named_token" /\ ~call.prompt

\* C5: in get_token and in get_named_token with prompt=false an HTTP 401 ends the
\* call with AuthenticationFailed after exactly one token request, with no prompt and
\* with neither the token cache nor the secret store written.
C5_RejectionPropagates ==
    (NonInteractive /\ Rejections # {}) =>
        /\ call.pc = "raised" /\ call.exc = "AuthenticationFailed"
        /\ Cardinality(Requests) = 1
        /\ Prompts = {}
        /\ CacheUnchanged
        /\ KeyringUnchanged

\* get_named_token with prompt=false, a name and use_keyring got a 401 and raised
C5_WitnessRejection ==
    /\ call.op = "get_named_token" /\ ~call.prompt
    /\ call.use_keyring /\ Truthy(call.name)
    /\ Rejections # {}
    /\ call.pc = "raised" /\ call.exc = "AuthenticationFailed"

Interactive == call.op = "get_named_token" /\ call.prompt

\* C6: in get_named_token with prompt=true every HTTP 401 clears the password, the
\* next thing the call does is a password prompt, and the token request after it
\* carries the password entered at that prompt; AuthenticationFailed never ends the
\* call.
C6_RejectionReprompts ==
    Interactive =>
        /\ call.exc # "AuthenticationFailed"
        /\ \A i \in Rejections :
              /\ i = Len(events) => (call.pc = "nt_loop" /\ call.password = None)
              /\ i < Len(events) => events[i + 1].e = "prompt_password"
              /\ i + 1 < Len(events) =>
                    /\ events[i + 2].e = "request"
                    /\ events[i + 2].password = events[i + 1].input

\* a password was rejected, another one was entered and sent
C6_WitnessSecondPassword ==
    /\ Interactive
    /\ \E i \in Rejections :
          /\ i + 2 <= Len(events)
          /\ events[i + 1].e = "prompt_password"
          /\ events[i + 2].e = "request"
          /\ events[i + 2].password # events[i].password

\* C7: a ServerError of the token service ends the call with that ServerError:
\* nothing follows the failed request (no request, no prompt), and neither the token
\* cache nor the secret store is written; in get_token and in get_named_token, with
\* or without prompt.
C7_ServerErrorPropagates ==
    (call.op \in {"get_token", "get_named_token"} /\ ServerErrors # {}) =>
        /\ ServerErrors = {Len(events)}
        /\ call.pc = "raised" /\ call.exc = "ServerError"
        /\ CacheUnchanged
        /\ KeyringUnchanged

\* get_named_token with prompt=true was answered with a ServerError after a prompt
C7_WitnessServerError ==
    /\ Interactive /\ call.use_keyring /\ Truthy(call.name)
    /\ Prompts # {}
    /\ ServerErrors # {}
    /\ call.pc = "raised"

\* C8: when the service-credential provider raises its configuration-missing or its
\* credentials-unreadable signal, get_service_token returns None, the signal does not
\* end the call, and the call goes on to the configuration and the token service.
C8_ProviderFailureSwallowed ==
    (call.op \in {"get_token", "get_named_token"}) =>
        \A i \in EventsWhere(LAMBDA ev : ev.e = "service" /\ ev.exc \in SwallowedSignals) :
            /\ events[i].token = None
            /\ call.exc \notin SwallowedSignals
            /\ i < Len(events)
            /\ events[i + 1].e = "get_config"

\* the provider could not read its credentials and the token service issued the token
C8_WitnessFallThrough ==
    /\ call.op = "get_token"
    /\ EventsWhere(LAMBDA ev : ev.e = "service"
                               /\ ev.exc = "tokens.InvalidCredentialsError") # {}
    /\ EventsWhere(LAMBDA ev : ev.e = "request" /\ ev.status = 200) # {}
    /\ call.pc = "returned"

\* the seconds for which the returned token stays usable after the return
UsableFor(token) == token["creation_time"] + token["expires_in"] - now

\* C9 as claimed: every token get_token or get_named_token hands out stays usable
\* for at least 300 seconds from the return (stated for the tokens whose
\* creation_time and expires_in are known).
C9_EveryTokenLasts ==
    (/\ call.op \in {"get_token", "get_named_token"}
     /\ call.pc = "returned"
     /\ HasLifetime(call.result)) =>
        UsableFor(call.result) >= 300

\* C9 amended: every token get_token or get_named_token hands out from the cache
\* stays usable for more than 300 seconds from the return.
C9_CachedTokenLasts ==
    (/\ call.op \in {"get_token", "get_named_token"}
     /\ call.pc = "returned"
     /\ CacheHit) =>
        /\ HasLifetime(call.result)
        /\ UsableFor(call.result) > 300

\* a token stored by an earlier call was handed out from the cache
C9_WitnessCachedToken ==
    /\ call.op = "get_token"
    /\ call.pc = "returned"
    /\ CacheHit
    /\ HasLifetime(call.result)
    /\ call.result["creation_time"] = now

\* C10: whatever get_token or get_named_token returns, from the cache, from the
\* service-credential provider or freshly issued, carries a non-empty access_token.
C10_ReturnHasAccessToken ==
    (call.op \in {"get_token", "get_named_token"} /\ call.pc = "returned") =>
        /\ "access_token" \in DOMAIN call.result
        /\ Truthy(call.result["access_token"])

\* get_named_token returned a cached record that an earlier call had stored
C10_WitnessFromCache ==
    /\ call.op = "get_named_token"
    /\ call.pc = "returned"
    /\ CacheHit
    /\ "access_token" \in DOMAIN call.result

----------------------------------------------------------------------------
(* The entry points over a cache file the program did not write *)

\* what ~/.zign_tokens can hold when it is not the program's own document: nothing,
\* text yaml cannot parse, or a YAML document that is not a mapping (plain text, a list)
ForeignFiles == {FileMissing, FileUnparseable, FileScalar}

InitCorrupt ==
    /\ now = 0
    /\ tokensFile \in ForeignFiles
    /\ keyringStore = EmptyDict
    /\ configFile = [user |-> "alice"]
    /\ call = IdleCall
    /\ events = <<>>

SpecCorrupt == InitCorrupt /\ [][Next]_vars

----------------------------------------------------------------------------
(* Properties of the cache lookup over a foreign file, checked under SpecCorrupt *)

\* the call began with a cache lookup
LookedUp ==
    /\ call.op \in {"get_token", "get_named_token"}
    /\ Len(events) >= 1
    /\ events[1].e = "cache_lookup"

\* C11: loading the cache never fails: over a missing, unreadable or corrupt cache file
\* get_tokens returns the empty cache, the lookup reports no token, and get_token and
\* get_named_token go on as after a cache miss instead of raising.
C11_LoadNeverFails ==
    (LookedUp /\ call.pre.tokens \in ForeignFiles) =>
        /\ get_tokens(call.pre.tokens) = EmptyDict
        /\ ~events[1].hit
        /\ ~(call.pc = "raised" /\ Len(events) = 1)

----------------------------------------------------------------------------
(* Properties of the order of the sources, checked under Spec *)

\* the record cached under the call's name when the call began
CachedAtCall == Get(get_tokens(call.pre.tokens), call.name, NoToken)

\* the record has more than 300 seconds left at time t
Fresh(token, t) ==
    /\ token # NoToken
    /\ DOMAIN token # {}
    /\ t < Get(token, "creation_time", 0) + Get(token, "expires_in", 0) - 300

\* the call returned the cached record
ReturnedFromCache == call.pc = "returned" /\ CacheHit

\* the call returned what the provider gave
ReturnedFromProvider ==
    /\ call.pc = "returned"
    /\ Len(events) >= 1
    /\ events[Len(events)].e = "service"
    /\ Truthy(events[Len(events)].token)
    /\ call.result = [access_token |-> events[Len(events)].token]

\* the call returned the answer of a token request
ReturnedFromRequest ==
    /\ call.pc = "returned"
    /\ \E i \in Requests : events[i].status = 200 /\ events[i].exc = None

NothingWritten ==
    /\ CacheUnchanged
    /\ KeyringUnchanged
    /\ configFile = call.pre.config

\* C12: get_named_token returns the cached record exactly when name is given, refresh
\* is false and the record cached under name is valid; then the cache lookup is all
\* the call did: no provider, no token request, no prompt, nothing written. With
\* refresh=true the cached record is never returned: what is returned comes from the
\* provider or from a token request.
C12_CacheFirstUnlessRefresh ==
    call.op = "get_named_token" =>
        /\ ReturnedFromCache =>
              /\ Truthy(call.name) /\ ~call.refresh
              /\ Fresh(CachedAtCall, now)
              /\ call.result = CachedAtCall
              /\ Len(events) = 1
              /\ NothingWritten
        /\ (Truthy(call.name) /\ ~call.refresh /\ Fresh(CachedAtCall, now)) =>
              ReturnedFromCache
        /\ call.refresh =>
              /\ ~CacheHit
              /\ call.pc = "returned" => (ReturnedFromProvider \/ ReturnedFromRequest)

\* with refresh=true a valid cached record was passed over and a new token returned
C12_WitnessRefreshSkipsCache ==
    /\ call.op = "get_named_token"
    /\ call.refresh
    /\ Fresh(CachedAtCall, now)
    /\ ReturnedFromRequest
    /\ call.result # CachedAtCall

\* the events of the call that are steps after the provider: the configuration read,
\* the token request, the save
AfterProvider == EventsWhere(LAMBDA ev : ev.e \in {"get_config", "request", "store_token"})

\* C13: get_token tries the cache, then the service-credential provider, then the
\* token service: the provider is consulted only after a cache miss; the
\* configuration is read, user and URL checked and the token requested only after
\* both the cache and the provider gave nothing; a valid cached record or a provider
\* token is returned whether or not a user or a URL is configured.
C13_CacheProviderService ==
    call.op = "get_token" =>
        /\ Len(events) >= 1 /\ events[1].e = "cache_lookup"
        /\ \A i \in 1..Len(events) :
              /\ events[i].e = "cache_lookup" => i = 1
              /\ events[i].e = "service" => i = 2 /\ CacheMissed
        /\ AfterProvider # {} =>
              /\ CacheMissed
              /\ Len(events) >= 3 /\ events[2].e = "service" /\ ~Truthy(events[2].token)
              /\ \A i \in AfterProvider : i >= 3
        /\ call.exc = "ConfigurationError" => AfterProvider # {}
        /\ Fresh(CachedAtCall, now) /\ "access_token" \in DOMAIN CachedAtCall =>
              ReturnedFromCache /\ Len(events) = 1
        /\ (Len(events) >= 2 /\ events[2].e = "service" /\ Truthy(events[2].token)) =>
              ReturnedFromProvider /\ Len(events) = 2

\* get_token returned a provider token although the configuration names neither a
\* user nor a URL and the environment names no user
C13_WitnessProviderHitNoConfig ==
    /\ call.op = "get_token"
    /\ ReturnedFromProvider
    /\ CacheMissed
    /\ call.pre.config = EmptyDict
    /\ call.env = NoEnv

----------------------------------------------------------------------------
(* store_token in two processes at once: the steps of one save interleave with the
   steps of the other; nothing locks the file *)

Procs == {"p1", "p2"}

\* the two processes save under two distinct names
SavedName == [p1 |-> "n1", p2 |-> "n2"]

\* the record n1 holds in a cache file written by an earlier run
EarlierRecord == [access_token |-> "tokOld", expires_in |-> 700, creation_time |-> 0]

\* open(path, 'w'): the file exists and is empty
TruncatedFile == FileMapping(<<>>)

\* a variant: the file is opened for appending
written_at_end(doc, old) == old \o doc

\* line 100: the document is written from the start of the file through this process's
\* descriptor; what another descriptor wrote beyond its end stays (the document is
\* counted in entries, every entry taking the same room)
written_over(doc, old) == doc \o SubSeq(old, Len(doc) + 1, Len(old))

InitRace ==
    /\ now = 0
    /\ tokensFile \in {FileMissing, FileMapping(safe_dump([n1 |-> EarlierRecord]))}
    /\ keyringStore = EmptyDict
    /\ configFile = EmptyDict
    /\ call \in [Procs -> {[pc |-> "start", result |-> r, loaded |-> EmptyDict,
                            data |-> EmptyDict] : r \in StoreRecords}]
    /\ events = <<>>

\* lines 87-90: the cache is loaded, the record put under the name and stamped
RaceLoad(p) ==
    /\ call[p].pc = "start"
    /\ LET loaded == get_tokens(tokensFile)
           stamped == Put(call[p].result, "creation_time", now)
       IN  call' = [call EXCEPT ![p] = [@ EXCEPT !.pc = "loaded", !.loaded = loaded,
                                                 !.data = Put(loaded, SavedName[p], stamped)]]
    /\ events' = Log(events, [e |-> "load", p |-> p])
    /\ UNCHANGED <<now, tokensFile, keyringStore, configFile>>

\* lines 92-99: the directory is made and the file opened for writing, which empties it
RaceOpen(p) ==
    /\ call[p].pc = "loaded"
    /\ tokensFile' = TruncatedFile
    /\ call' = [call EXCEPT ![p] = [@ EXCEPT !.pc = "opened"]]
    /\ events' = Log(events, [e |-> "open", p |-> p])
    /\ UNCHANGED <<now, keyringStore, configFile>>

\* line 100: the whole cache of this process is dumped and the file closed
RaceWrite(p) ==
    /\ call[p].pc = "opened"
    /\ tokensFile' = FileMapping(written_over(safe_dump(call[p].data), tokensFile.doc))
    /\ call' = [call EXCEPT ![p] = [@ EXCEPT !.pc = "done"]]
    /\ events' = Log(events, [e |-> "write", p |-> p])
    /\ UNCHANGED <<now, keyringStore, configFile>>

RaceTick ==
    /\ now < MaxTicks * TickSeconds
    /\ \E p \in Procs : call[p].pc # "done"
    /\ now' = now + TickSeconds
    /\ UNCHANGED <<tokensFile, keyringStore, configFile, call, events>>

NextRace ==
    \/ \E p \in Procs : RaceLoad(p)
    \/ \E p \in Procs : RaceOpen(p)
    \/ \E p \in Procs : RaceWrite(p)
    \/ RaceTick

SpecRace == InitRace /\ [][NextRace]_vars

----------------------------------------------------------------------------
(* Properties of two saves at once, checked under SpecRace *)

BothSaved == \A p \in Procs : call[p].pc = "done"

\* when process p took the step
StepOf(step, p) == CHOOSE i \in 1..Len(events) : events[i] = [e |-> step, p |-> p]

\* the process whose write came last, and the other one
LastWriter == events[Len(events)].p
FirstWriter == CHOOSE p \in Procs : p # LastWriter

\* both processes loaded the cache before either opened the file for writing
BothLoadedFirst ==
    \A p, q \in Procs : StepOf("load", p) < StepOf("open", q)

\* the last writer opened the file only after the other process had written
RewritesApart == StepOf("write", FirstWriter) < StepOf("open", LastWriter)

\* C14 as claimed: in every interleaving of two saves of two distinct names the final
\* file equals the cache computed by the process that wrote last.
C14_FileIsLastWritersCache ==
    BothSaved => get_tokens(tokensFile) = call[LastWriter].data

\* C14 amended: after two saves of two distinct names the file starts with the
\* document of the process that wrote last. When that process opened the file after
\* the other one had written, the file is exactly its cache, and if both had loaded
\* before either opened, the other save has left no trace: the cache is what was
\* loaded plus the last writer's entry. When the two rewrites overlap, the file is the
\* last writer's document followed by what the other document had beyond its end.
C14_LastWriterStartsTheFile ==
    BothSaved =>
        LET mine == safe_dump(call[LastWriter].data)
            other == safe_dump(call[FirstWriter].data)
            file == tokensFile.doc
        IN  /\ Len(file) >= Len(mine) /\ SubSeq(file, 1, Len(mine)) = mine
            /\ RewritesApart =>
                  /\ get_tokens(tokensFile) = call[LastWriter].data
                  /\ BothLoadedFirst =>
                        get_tokens(tokensFile) =
                            Put(call[FirstWriter].loaded, SavedName[LastWriter],
                                call[LastWriter].data[SavedName[LastWriter]])
            /\ ~RewritesApart =>
                  file = mine \o SubSeq(other, Len(mine) + 1, Len(other))

\* the lost update: both loaded the empty cache before either wrote, and the file
\* holds the last writer's entry alone
C14_WitnessLostUpdate ==
    /\ BothSaved
    /\ BothLoadedFirst
    /\ get_tokens(tokensFile) = call[LastWriter].data
    /\ DOMAIN get_tokens(tokensFile) = {SavedName[LastWriter]}
    /\ SavedName[FirstWriter] \in DOMAIN call[FirstWriter].data

----------------------------------------------------------------------------
(* Properties of one save on the other entries, checked under SpecStore *)

\* C15: in a single process, over a cache file that loads, store_token(name, record)
\* changes only the entry of name: every other name of the cache is still there
\* after the save with the record it had, creation_time included, and no name but
\* name is added.
C15_OtherEntriesKept ==
    [][(call'.op = "store_token" /\ call'.pc = "returned") =>
          LET before == get_tokens(tokensFile)
              after == get_tokens(tokensFile')
          IN  /\ \A n \in DOMAIN before \ {call'.name} :
                    n \in DOMAIN after /\ after[n] = before[n]
              /\ DOMAIN after \subseteq DOMAIN before \cup {call'.name}]_vars

\* n1 was saved after time had passed since the save of n2, and n2 still has the
\* record and the creation_time of its own save
C15_WitnessOlderEntryKept ==
    /\ call.op = "store_token" /\ call.pc = "returned" /\ call.name = "n1"
    /\ "n2" \in DOMAIN events
    /\ events["n2"].time < now
    /\ events["n1"].time = now
    /\ get_tokens(tokensFile)["n2"] =
          Put(events["n2"].given, "creation_time", events["n2"].time)
    /\ get_tokens(tokensFile)["n1"]["creation_time"] = now

----------------------------------------------------------------------------
(* get_named_token on its own, with a user who may mistype the URL *)

InitNamed ==
    /\ now = 0
    /\ tokensFile = FileMissing
    /\ keyringStore \in {EmptyDict, [alice |-> "pw1"]}
    /\ configFile \in {EmptyDict, [url |-> "https://ts"]}
    /\ call = IdleCall
    /\ events = <<>>

NextNamed ==
    \/ \E a \in NamedArgs : GetNamedToken(a)
    \/ \E o \in ServiceOutcomes : GetNamedTokenService(o)
    \/ \E input \in PromptUrls, reachable \in BOOLEAN : UrlPrompt(input, reachable)
    \/ \E input \in Passwords : PasswordPrompt(input)
    \/ \E o \in HttpOutcomes : NamedTokenRequest(o)
    \/ Done

SpecNamed == InitNamed /\ [][NextNamed]_vars

\* the calls that go to the password loop without asking the provider: a realm is given
LoopArgs == {a \in NamedArgs : Truthy(a.realm) /\ ~a.refresh}

InitLoop ==
    /\ now = 0
    /\ tokensFile = FileMissing
    /\ keyringStore = EmptyDict
    /\ configFile \in {EmptyDict, [url |-> "https://ts"]}
    /\ call = IdleCall
    /\ events = <<>>

NextLoop ==
    \/ \E a \in LoopArgs : GetNamedToken(a)
    \/ \E input \in Urls, reachable \in BOOLEAN : UrlPrompt(input, reachable)
    \/ \E input \in Passwords : PasswordPrompt(input)
    \/ \E o \in HttpOutcomes : NamedTokenRequest(o)
    \/ Done

\* every step of a running call is taken in the end: the token service answers or the
\* request times out, and the user answers the prompts
StepsAreTaken ==
    /\ WF_vars(\E input \in Urls, reachable \in BOOLEAN : UrlPrompt(input, reachable))
    /\ WF_vars(\E input \in Passwords : PasswordPrompt(input))
    /\ WF_vars(\E o \in HttpOutcomes : NamedTokenRequest(o))

SpecLoop == InitLoop /\ [][NextLoop]_vars /\ StepsAreTaken

----------------------------------------------------------------------------
(* Properties of what get_named_token persists, checked under Spec and SpecNamed *)

\* the token requests of the call that were answered with a token
Successes == EventsWhere(LAMBDA ev : ev.e = "request" /\ ev.status = 200 /\ ev.exc = None)

SetPasswords == EventsWhere(LAMBDA ev : ev.e = "set_password")
StoreTokens == EventsWhere(LAMBDA ev : ev.e = "store_token")

\* C16: get_named_token persists only after a token request that succeeded. The
\* secret store is written only when use_keyring is set and a request succeeded, and
\* the password written is the one that request carried; a password answered with
\* 401 is written only if a later request carrying it succeeded. The token cache is
\* written only when name is given and a request succeeded, and it then holds the
\* issued record under name.
C16_PersistAfterSuccess ==
    call.op = "get_named_token" =>
        /\ \A i \in SetPasswords :
              /\ call.use_keyring
              /\ i - 1 \in Successes
              /\ events[i].password = events[i - 1].password
              /\ events[i].user = events[i - 1].user
              /\ keyringStore = Put(call.pre.keyring, events[i].user, events[i].password)
        /\ SetPasswords = {} => KeyringUnchanged
        /\ \A i \in StoreTokens :
              /\ Truthy(call.name)
              /\ \E j \in Successes : j < i /\ \A k \in Requests : k <= j
              /\ events[i].name = call.name
              /\ "access_token" \in DOMAIN events[i].token
              /\ Get(get_tokens(tokensFile), call.name, NoToken) = events[i].token
              /\ tokensFile = store_token(call.name, events[i].token, call.pre.tokens,
                                          events[i].token["creation_time"]).file
        /\ StoreTokens = {} => CacheUnchanged
        /\ (call.pc = "returned" /\ Successes # {}) =>
              /\ call.use_keyring => SetPasswords # {}
              /\ Truthy(call.name) => StoreTokens # {}

\* the first password was answered with 401, the second one was accepted, and the
\* secret store holds the second one
C16_WitnessSecondPasswordSaved ==
    /\ call.op = "get_named_token" /\ call.pc = "returned"
    /\ call.use_keyring /\ Truthy(call.name)
    /\ \E i \in Rejections, j \in Successes :
          /\ i < j
          /\ events[i].password = "pw1" /\ events[j].password = "pw2"
          /\ keyringStore[call.user] = "pw2"
    /\ StoreTokens # {}
    /\ call.pre.keyring = EmptyDict

UrlPrompts == EventsWhere(LAMBDA ev : ev.e = "prompt_url")
StoreConfigs == EventsWhere(LAMBDA ev : ev.e = "store_config")

\* get_named_token found no URL in its argument or the configuration and prompts
InUrlLoop ==
    /\ call.op = "get_named_token"
    /\ call.pc = "nt_url_prompt" \/ UrlPrompts # {}

\* C17: in get_named_token with no URL from the argument or the configuration and
\* prompt=true, a failed probe is followed by the URL prompt again, until a probe
\* succeeds; the configuration persisted then holds the URL whose probe succeeded,
\* never one whose probe failed, and it is persisted before the first token request.
C17_UrlPromptUntilProbeSucceeds ==
    InUrlLoop =>
        /\ call.prompt
        /\ ~Truthy(Get(call.pre.config, "url", None))
        /\ \A i \in UrlPrompts :
              IF events[i].reachable
              THEN /\ i < Len(events)
                   /\ events[i + 1].e = "store_config"
                   /\ events[i + 1].config = Put(call.pre.config, "url", events[i].input)
                   /\ configFile = events[i + 1].config
              ELSE IF i = Len(events)
                   THEN call.pc = "nt_url_prompt"
                   ELSE events[i + 1].e = "prompt_url"
        /\ call.pc = "nt_url_prompt" =>
              /\ StoreConfigs = {}
              /\ Requests = {}
              /\ configFile = call.pre.config
        /\ \A i \in StoreConfigs :
              /\ i - 1 \in UrlPrompts /\ events[i - 1].reachable
              /\ \A j \in Requests : i < j
        /\ Requests # {} => Cardinality(StoreConfigs) = 1

\* a probe failed, the URL was asked for again, the second probe succeeded, its URL
\* was persisted and a token request followed
C17_WitnessSecondUrlPersisted ==
    /\ InUrlLoop
    /\ \E i \in UrlPrompts :
          /\ ~events[i].reachable
          /\ i + 1 \in UrlPrompts /\ events[i + 1].reachable
          /\ i + 2 \in StoreConfigs
          /\ events[i].input # events[i + 1].input
          /\ configFile["url"] = events[i + 1].input
    /\ Requests # {}

ProviderCalls == EventsWhere(LAMBDA ev : ev.e = "service")

\* C18: get_named_token consults the service-credential provider only when a name is
\* given without a realm and the cache gave no token first; with a realm, or with no
\* name, the provider is never called, and what the call returns comes from the
\* cache or from a token request.
C18_ProviderOnlyForNameWithoutRealm ==
    call.op = "get_named_token" =>
        /\ ProviderCalls # {} =>
              /\ Truthy(call.name) /\ ~Truthy(call.realm)
              /\ ~CacheHit
              /\ Cardinality(ProviderCalls) = 1
        /\ call.pc = "nt_service" => Truthy(call.name) /\ ~Truthy(call.realm)
        /\ (Truthy(call.realm) \/ ~Truthy(call.name)) =>
              /\ ProviderCalls = {}
              /\ call.pc = "returned" => (ReturnedFromCache \/ ReturnedFromRequest)
        /\ (Truthy(call.name) /\ ~Truthy(call.realm) /\ ~CacheHit
               /\ call.pc \notin {"idle", "nt_service"}) => ProviderCalls # {}

\* a name and a realm were given, the cache missed, and the token came from a token
\* request without the provider being asked
C18_WitnessRealmSkipsProvider ==
    /\ call.op = "get_named_token"
    /\ Truthy(call.name) /\ Truthy(call.realm)
    /\ CacheMissed
    /\ ProviderCalls = {}
    /\ ReturnedFromRequest

----------------------------------------------------------------------------
(* Properties of the password loop, checked under SpecLoop *)

NamedCallRunning == call.op = "get_named_token" /\ call.pc \notin Finished
NamedCallEnded == call.op = "get_named_token" /\ call.pc \in Finished

PasswordPrompts == EventsWhere(LAMBDA ev : ev.e = "prompt_password")

\* between an HTTP 401 and the next token request there is exactly one password prompt,
\* and without prompting there is at most one token request
OnePromptPerRetry ==
    call.op = "get_named_token" =>
        /\ call.prompt =>
              \A i \in Rejections :
                  /\ i < Len(events) => events[i + 1].e = "prompt_password"
                  /\ i + 1 < Len(events) => events[i + 2].e = "request"
                  /\ i = Len(events) => call.pc = "nt_loop" /\ ~Truthy(call.password)
        /\ ~call.prompt =>
              /\ Cardinality(Requests) <= 1
              /\ PasswordPrompts = {}
              /\ Requests # {} => call.pc \in Finished

\* the last token request of the call
LastRequest == events[CHOOSE i \in Requests : \A j \in Requests : j <= i]

\* a call that ended after the token service gave a non-401 answer returned a token
\* or raised ServerError; a call that prompts never ends with AuthenticationFailed
EndsWithTokenOrError ==
    NamedCallEnded =>
        /\ (Requests # {} /\ LastRequest.exc # "ConnectionError"
               /\ LastRequest.status # 401) =>
              \/ call.pc = "returned" /\ "access_token" \in DOMAIN call.result
              \/ call.pc = "raised" /\ call.exc = "ServerError"
        /\ call.prompt => call.exc # "AuthenticationFailed"

\* C19: the password loop of get_named_token cannot go round without user input: with
\* prompt=true every round after an HTTP 401 has exactly one password prompt; when
\* the token service gives a non-401 answer in the end (at most MaxAuthFailures
\* rejections) and every step is taken in the end, the call terminates, with a token
\* or an exception; with prompt=false it ends after at most one token request.
C19_PasswordLoopTerminates ==
    /\ [](OnePromptPerRetry /\ EndsWithTokenOrError)
    /\ NamedCallRunning ~> NamedCallEnded

\* a call with prompt=true ended with a token after a rejected password and one more
\* password prompt
C19_WitnessEndsAfterRetry ==
    /\ call.op = "get_named_token" /\ call.prompt /\ call.pc = "returned"
    /\ Cardinality(Rejections) = MaxAuthFailures
    /\ \E i \in Rejections : events[i + 1].e = "prompt_password"
    /\ ReturnedFromRequest

----------------------------------------------------------------------------
(* Properties of a provider token and the cache, checked under Spec *)

\* the record the cache file holds under the call's name now
CachedNow == Get(get_tokens(tokensFile), call.name, NoToken)

\* a lookup of the call's name misses the cache now and at every later time
CacheMissesFromNowOn ==
    \A k \in 0..MaxTicks : ~Fresh(CachedNow, now + k * TickSeconds)

ProviderTokenReturned ==
    /\ call.op \in {"get_token", "get_named_token"}
    /\ ReturnedFromProvider

\* C20 as claimed: when get_token or get_named_token returns a provider token, the
\* token cache, the secret store and the configuration are as they were, so a later
\* call with the same name misses the cache.
C20_LaterCallMissesCache ==
    ProviderTokenReturned => (NothingWritten /\ CacheMissesFromNowOn)

\* C20 amended: when get_token or get_named_token returns a provider token, the token
\* cache, the secret store and the configuration are as they were. Unless the call was
\* get_named_token with refresh=true, the cache had just missed, so a lookup of the
\* name misses now and at every later time; with refresh=true the cache was not
\* looked at and still holds whatever record it held for the name.
C20_ProviderTokenNotCached ==
    ProviderTokenReturned =>
        /\ NothingWritten
        /\ CachedNow = CachedAtCall
        /\ CachedNow # Put(call.result, "creation_time", now)
        /\ ~call.refresh => (CacheMissed /\ CacheMissesFromNowOn)
        /\ call.refresh => call.op = "get_named_token" /\ ~LookedUp

\* a provider token was returned over a cache that holds an outdated record for the
\* name, and the record is still the cache's entry
C20_WitnessOutdatedEntryStays ==
    /\ ProviderTokenReturned
    /\ ~call.refresh
    /\ CachedNow # NoToken
    /\ CachedNow["access_token"] # call.result["access_token"]

====
